---- MODULE Spec2Model ----
(***************************************************************************)
(* A model of desclamp/postage.py: the three operations of class           *)
(* Candidates (catalog_query, make_postage_stamps, display_cutouts) and    *)
(* the bounding-box arithmetic of make_postage_stamps.                     *)
(*                                                                         *)
(* Python's None is modelled by NoneVal and a present value v by Some(v).  *)
(* A Python string that the code assembles (the native tract filter) is a  *)
(* sequence of string pieces and decimal digits.  Pixel coordinates, which *)
(* are floats in the code, are counted in quarters of a pixel.             *)
(***************************************************************************)
EXTENDS Integers, Sequences, FiniteSets, TLC

VARIABLES
    \* ---- catalog_query ----
    q_pc,            \* position in catalog_query
    query,           \* argument query
    columns,         \* argument columns (NoneVal or Some(list))
    tracts,          \* argument tracts  (NoneVal or Some(list))
    columns_to_get,  \* local columns_to_get
    q_checked,       \* argument of the last cat.has_quantities call
    filters,         \* local filters: NoneVal while unbound
    q_call,          \* the cat.get_quantities call that was executed
    q_result,        \* returned ObjectTable
    q_error,         \* exception that ended the call
    \* ---- make_postage_stamps ----
    s_pc,            \* position in make_postage_stamps
    objects,         \* argument objects
    cutout_size,     \* argument cutout_size
    bands,           \* argument bands
    skymap_gets,     \* number of butler.get('deepCoadd_skyMap') calls
    row,             \* index of the row the loop is at
    bbox,            \* local bbox of the current row
    cutout,          \* local cutout (images fetched so far for the row)
    cutouts,         \* local cutouts {"images", "wcs", "GCR"}
    requests,        \* every butler.get("deepCoadd_sub", ...) call issued
    s_result,        \* returned CutoutSet
    s_error,         \* exception that ended the call
    \* ---- bounding box arithmetic ----
    int_conv,        \* how this build of lsst.geom converts a float to an int
    b_pc, b_center, b_size, b_box,
    \* ---- display_cutouts ----
    d_pc,            \* position in display_cutouts
    d_n,             \* local n
    d_side,          \* rows (= columns) of the GridSpec
    d_i,             \* loop index i
    d_cells          \* d_cells[k]: the [entry, cell] of the k-th subplot drawn

qvars == <<q_pc, query, columns, tracts, columns_to_get, q_checked, filters,
           q_call, q_result, q_error>>
svars == <<s_pc, objects, cutout_size, bands, skymap_gets, row, bbox, cutout,
           cutouts, requests, s_result, s_error>>
bvars == <<int_conv, b_pc, b_center, b_size, b_box>>
dvars == <<d_pc, d_n, d_side, d_i, d_cells>>
vars == <<qvars, svars, bvars, dvars>>

NoneVal == [some |-> FALSE]
Some(v) == [some |-> TRUE, val |-> v]

Range(s) == {s[k] : k \in 1..Len(s)}

RECURSIVE SeqsUpTo(_, _)
\* all sequences over S of length at most n
SeqsUpTo(S, n) ==
    IF n = 0 THEN {<<>>}
    ELSE LET shorter == SeqsUpTo(S, n - 1)
         IN shorter \cup {Append(s, x) : s \in {t \in shorter : Len(t) = n - 1}, x \in S}

(***************************************************************************)
(*                            catalog_query                                *)
(***************************************************************************)
MaxCols == 2
MaxTracts == 3

\* the minimum set of information needed about objects in the catalog
BaseColumns == <<"objectId", "ra", "dec", "tract", "patch">>

\* the quantities of the catalog: the base fields and one magnitude
CatalogQuantities == {"objectId", "ra", "dec", "tract", "patch", "mag_i"}

\* column names a caller may pass: an extra column, an unknown one, a base field
ColumnChoices == {"mag_i", "bogus", "ra"}

\* every column name of the model in lexicographic order (the order np.unique sorts by)
SortedColumns == <<"bogus", "dec", "mag_i", "objectId", "patch", "ra", "tract">>

TractIds == {7, 10, 20, 30}
Queries == {"mag_i < 24", "mag_i < 26"}

\* the rows the catalog holds
CatalogRows ==
    << [objectId |-> 1, ra |-> 55, dec |-> 30, tract |-> 10, patch |-> "1,1", mag_i |-> 23],
       [objectId |-> 2, ra |-> 56, dec |-> 31, tract |-> 20, patch |-> "2,1", mag_i |-> 25],
       [objectId |-> 3, ra |-> 57, dec |-> 32, tract |-> 7,  patch |-> "0,3", mag_i |-> 22],
       [objectId |-> 4, ra |-> 58, dec |-> 33, tract |-> 30, patch |-> "4,4", mag_i |-> 27] >>

\* np.unique: the sorted distinct elements
NpUniqueNoDedup(s) ==
    LET n == Len(s)
        rank(c) == CHOOSE k \in 1..Len(SortedColumns) : SortedColumns[k] = c
        before(a, b) == rank(s[a]) < rank(s[b]) \/ (rank(s[a]) = rank(s[b]) /\ a < b)
        pos(a) == 1 + Cardinality({b \in 1..n : before(b, a)})
    IN [k \in 1..n |-> s[CHOOSE a \in 1..n : pos(a) = k]]

NpUnique(s) == SelectSeq(SortedColumns, LAMBDA c : c \in Range(s))

\* lines 59-62
ColumnsToGet(cols) ==
    IF cols.some THEN NpUnique(BaseColumns \o cols.val) ELSE BaseColumns

HasQuantitiesAlways(cols) == TRUE

\* cat.has_quantities
HasQuantities(cols) == \A k \in 1..Len(cols) : cols[k] \in CatalogQuantities

Digit == <<"0", "1", "2", "3", "4", "5", "6", "7", "8", "9">>

RECURSIVE FormatInt(_)
\* the decimal digits an f-string writes for a non-negative integer
FormatInt(n) ==
    IF n < 10 THEN <<Digit[n + 1]>>
    ELSE FormatInt(n \div 10) \o <<Digit[(n % 10) + 1]>>

\* f"(tract == {t})"
TractTerm(t) == <<"(tract == ">> \o FormatInt(t) \o <<")">>

RECURSIVE OrTermsSkipLast(_)
OrTermsSkipLast(ts) ==
    IF Len(ts) <= 1 THEN <<>>
    ELSE <<" | ">> \o TractTerm(Head(ts)) \o OrTermsSkipLast(Tail(ts))

RECURSIVE OrTerms(_)
\* for t in ts: filters += f" | (tract == {t})"
OrTerms(ts) ==
    IF ts = <<>> THEN <<>>
    ELSE <<" | ">> \o TractTerm(Head(ts)) \o OrTerms(Tail(ts))

TractsTruthy(t) == t.some /\ t.val # <<>>

\* line 67: tracts is not None
TractsGiven(t) == t.some

\* lines 68-70, for a non-empty list
TractFilter(ts) == TractTerm(ts[1]) \o OrTerms(Tail(ts))

(* How the catalog reads a native filter: term ("|" term)*, each term
   "(tract == <digits>)".  ParseFilter gives the tract numbers of the terms in
   order, or ok = FALSE for a string of another shape. *)
DigitValue(d) == (CHOOSE k \in 1..10 : Digit[k] = d) - 1
IsDigit(d) == \E k \in 1..10 : Digit[k] = d

RECURSIVE ParseDigits(_, _, _)
\* reads digits from position p; gives [ok, val, next]
ParseDigits(s, p, acc) ==
    IF p <= Len(s) /\ IsDigit(s[p])
    THEN ParseDigits(s, p + 1, [n |-> acc.n + 1, val |-> 10 * acc.val + DigitValue(s[p])])
    ELSE [ok |-> acc.n > 0, val |-> acc.val, next |-> p]

RECURSIVE ParseTerms(_, _)
ParseTerms(s, p) ==
    IF ~(p <= Len(s) /\ s[p] = "(tract == ") THEN [ok |-> FALSE, terms |-> <<>>]
    ELSE LET d == ParseDigits(s, p + 1, [n |-> 0, val |-> 0])
         IN IF ~(d.ok /\ d.next <= Len(s) /\ s[d.next] = ")")
            THEN [ok |-> FALSE, terms |-> <<>>]
            ELSE IF d.next = Len(s) THEN [ok |-> TRUE, terms |-> <<d.val>>]
            ELSE IF s[d.next + 1] # " | " THEN [ok |-> FALSE, terms |-> <<>>]
            ELSE LET rest == ParseTerms(s, d.next + 2)
                 IN [ok |-> rest.ok, terms |-> <<d.val>> \o rest.terms]

ParseFilter(s) == ParseTerms(s, 1)

\* whether a catalog row passes the native filter
NativeFilterHolds(f, r) ==
    LET p == ParseFilter(f)
    IN p.ok /\ \E k \in 1..Len(p.terms) : p.terms[k] = r.tract

\* the catalog's evaluation of the (opaque) selection string
QueryHolds(q, r) ==
    IF q = "mag_i < 24" THEN r.mag_i < 24 ELSE r.mag_i < 26

\* cat.get_quantities followed by pd.DataFrame: the matching rows, the asked columns
GetQuantities(cols, q, native) ==
    LET keep == SelectSeq(CatalogRows,
                          LAMBDA r : QueryHolds(q, r) /\ NativeFilterHolds(native, r))
    IN [k \in 1..Len(keep) |-> [c \in Range(cols) \cap CatalogQuantities |-> keep[k][c]]]

QInit ==
    /\ q_pc = "idle"
    /\ query = ""
    /\ columns = NoneVal
    /\ tracts = NoneVal
    /\ columns_to_get = <<>>
    /\ q_checked = NoneVal
    /\ filters = NoneVal
    /\ q_call = NoneVal
    /\ q_result = NoneVal
    /\ q_error = NoneVal

\* the call catalog_query(query, columns, tracts)
CatalogQueryCall ==
    /\ q_pc = "idle"
    /\ \E q \in Queries,
          c \in {NoneVal} \cup {Some(s) : s \in SeqsUpTo(ColumnChoices, MaxCols)},
          t \in {NoneVal} \cup {Some(s) : s \in SeqsUpTo(TractIds, MaxTracts)} :
          /\ query' = q
          /\ columns' = c
          /\ tracts' = t
    /\ q_pc' = "columns"
    /\ UNCHANGED <<columns_to_get, q_checked, filters, q_call, q_result, q_error>>
    /\ UNCHANGED <<svars, bvars, dvars>>

\* lines 59-62
BuildColumns ==
    /\ q_pc = "columns"
    /\ columns_to_get' = ColumnsToGet(columns)
    /\ q_pc' = "assert"
    /\ UNCHANGED <<query, columns, tracts, q_checked, filters, q_call, q_result, q_error>>
    /\ UNCHANGED <<svars, bvars, dvars>>

\* line 64
SchemaCheck ==
    /\ q_pc = "assert"
    /\ q_checked' = Some(columns_to_get)
    /\ IF HasQuantities(columns_to_get)
       THEN q_pc' = "filters" /\ UNCHANGED q_error
       ELSE q_pc' = "raised" /\ q_error' = Some("AssertionError")
    /\ UNCHANGED <<query, columns, tracts, columns_to_get, filters, q_call, q_result>>
    /\ UNCHANGED <<svars, bvars, dvars>>

\* lines 67-70
BuildFilters ==
    /\ q_pc = "filters"
    /\ IF ~TractsGiven(tracts)
       THEN q_pc' = "get" /\ UNCHANGED <<filters, q_error>>
       ELSE IF tracts.val = <<>>
            THEN q_pc' = "raised" /\ q_error' = Some("IndexError") /\ UNCHANGED filters
            ELSE q_pc' = "get" /\ filters' = Some(TractFilter(tracts.val)) /\ UNCHANGED q_error
    /\ UNCHANGED <<query, columns, tracts, columns_to_get, q_checked, q_call, q_result>>
    /\ UNCHANGED <<svars, bvars, dvars>>

\* lines 71-76: reading the unbound local filters raises before the call is made
Retrieve ==
    /\ q_pc = "get"
    /\ IF ~filters.some
       THEN /\ q_pc' = "raised"
            /\ q_error' = Some("UnboundLocalError")
            /\ UNCHANGED <<q_call, q_result>>
       ELSE /\ q_call' = Some([columns |-> columns_to_get, filters |-> query,
                               native_filters |-> filters.val])
            /\ q_result' = Some(GetQuantities(columns_to_get, query, filters.val))
            /\ q_pc' = "returned"
            /\ UNCHANGED q_error
    /\ UNCHANGED <<query, columns, tracts, columns_to_get, q_checked, filters>>
    /\ UNCHANGED <<svars, bvars, dvars>>

(***************************************************************************)
(*                     bounding box of a postage stamp                     *)
(***************************************************************************)
HalfPixel == 2       \* half a pixel, in the unit coordinates are counted in
MaxCoord == 14       \* tile-pixel coordinates range over -MaxCoord..MaxCoord units
MaxSize == 5         \* cutout sizes range over 1..MaxSize pixels

(* lsst.geom.Point2I applied to a pair of floats.  The library is not part of
   this repository; it converts either as a C cast does (towards zero) or as
   Point2I(Point2D) does (to the nearest integer, halves up).  Both are kept. *)
IntConversions == {"trunc", "round"}

PixelScale == 2 * HalfPixel

ToInt(v, conv) ==
    IF conv = "trunc"
    THEN IF v >= 0 THEN v \div PixelScale ELSE -((-v) \div PixelScale)
    ELSE (v + HalfPixel) \div PixelScale

BoxMinFullSize(c, size, conv) == ToInt(c - size * PixelScale, conv)

\* one coordinate of Point2I((center.x - cutout_size*0.5, center.y - cutout_size*0.5))
BoxMin(c, size, conv) == ToInt(c - size * HalfPixel, conv)

\* lsst.geom.BoxI(Point2I(...), ExtentI(cutout_size, cutout_size))
BBox(center, size, conv) ==
    [minX |-> BoxMin(center[1], size, conv),
     minY |-> BoxMin(center[2], size, conv),
     width |-> size,
     height |-> size]

BInit ==
    /\ b_pc = "idle"
    /\ b_center = <<0, 0>>
    /\ b_size = 1
    /\ int_conv \in IntConversions
    /\ b_box = NoneVal

\* lines 93 and 98 for one object
ComputeBBox ==
    /\ b_pc = "idle"
    /\ \E x \in -MaxCoord..MaxCoord, y \in -MaxCoord..MaxCoord, size \in 1..MaxSize :
          /\ b_center' = <<x, y>>
          /\ b_size' = size
          /\ b_box' = Some(BBox(<<x, y>>, size, int_conv))
    /\ b_pc' = "done"
    /\ UNCHANGED int_conv
    /\ UNCHANGED <<qvars, svars, dvars>>

(***************************************************************************)
(*                          make_postage_stamps                            *)
(***************************************************************************)
MaxRows == 3
MaxBands == 3

BandLetters == {"i", "r", "g"}
CutoutSizes == {3, 100}

\* rows of an ObjectTable (the five identifying fields)
ObjectRows ==
    { [objectId |-> 1, ra |-> 55, dec |-> 30, tract |-> 10, patch |-> "1,1"],
      [objectId |-> 2, ra |-> 56, dec |-> 31, tract |-> 20, patch |-> "2,1"] }

\* skymap.findTract(radec).getWcs().skyToPixel(radec) for the rows above
SkyToPixel(r) == IF r.objectId = 1 THEN <<41, 6>> ELSE <<-3, 22>>

EmptyCutoutsStale == [images |-> <<<<>>>>, wcs |-> <<>>, GCR |-> <<>>]

\* line 94
EmptyCutouts == [images |-> <<>>, wcs |-> <<>>, GCR |-> <<>>]

SubImageRequestFirstBand(bb, r, bs, j) ==
    [bbox |-> bb, tract |-> r.tract, patch |-> r.patch, filter |-> bs[1]]

\* lines 100-105: the selector of the j-th butler.get("deepCoadd_sub", ...) of a row
SubImageRequest(bb, r, bs, j) ==
    [bbox |-> bb, tract |-> r.tract, patch |-> r.patch, filter |-> bs[j]]

\* line 108: cutout[0].getWcs().getFitsMetadata()
FitsMetadata(image) == [wcs_of |-> image]

AfterFailureSkipRow == "row"

\* where control goes when a retrieval raises: there is no try/except in the loop
AfterFailure == "raised"

SInit ==
    /\ s_pc = "idle"
    /\ objects = <<>>
    /\ cutout_size = 100
    /\ bands = <<>>
    /\ skymap_gets = 0
    /\ row = 0
    /\ bbox = NoneVal
    /\ cutout = <<>>
    /\ cutouts = NoneVal
    /\ requests = <<>>
    /\ s_result = NoneVal
    /\ s_error = NoneVal

\* the call make_postage_stamps(objects, cutout_size, bands)
StampsCall ==
    /\ s_pc = "idle"
    /\ \E o \in SeqsUpTo(ObjectRows, MaxRows), size \in CutoutSizes,
          b \in SeqsUpTo(BandLetters, MaxBands) :
          /\ objects' = o
          /\ cutout_size' = size
          /\ bands' = b
    /\ s_pc' = "skymap"
    /\ UNCHANGED <<skymap_gets, row, bbox, cutout, cutouts, requests, s_result, s_error>>
    /\ UNCHANGED <<qvars, bvars, dvars>>

\* lines 91-94
GetSkyMap ==
    /\ s_pc = "skymap"
    /\ skymap_gets' = skymap_gets + 1
    /\ cutouts' = Some(EmptyCutouts)
    /\ row' = 1
    /\ s_pc' = "row"
    /\ UNCHANGED <<objects, cutout_size, bands, bbox, cutout, requests, s_result, s_error>>
    /\ UNCHANGED <<qvars, bvars, dvars>>

\* line 95 (loop exhausted) and line 110
ReturnCutouts ==
    /\ s_pc = "row"
    /\ row > Len(objects)
    /\ s_result' = cutouts
    /\ s_pc' = "returned"
    /\ UNCHANGED <<objects, cutout_size, bands, skymap_gets, row, bbox, cutout, cutouts,
                   requests, s_error>>
    /\ UNCHANGED <<qvars, bvars, dvars>>

\* lines 95-98: the tile lookup of the next row either raises or gives its centre
LocateRow ==
    /\ s_pc = "row"
    /\ row <= Len(objects)
    /\ \/ /\ s_pc' = AfterFailure
          /\ s_error' = Some([kind |-> "tile lookup", row |-> row, band |-> 0])
          /\ UNCHANGED <<bbox, cutout>>
       \/ /\ bbox' = Some(BBox(SkyToPixel(objects[row]), cutout_size, int_conv))
          /\ cutout' = <<>>
          /\ s_pc' = "band"
          /\ UNCHANGED s_error
    /\ UNCHANGED <<objects, cutout_size, bands, skymap_gets, row, cutouts, requests, s_result>>
    /\ UNCHANGED <<qvars, bvars, dvars>>

\* lines 100-105: one butler.get("deepCoadd_sub", ...) of the list comprehension
GetSubImage ==
    /\ s_pc = "band"
    /\ Len(cutout) < Len(bands)
    /\ LET req == SubImageRequest(bbox.val, objects[row], bands, Len(cutout) + 1)
       IN /\ requests' = Append(requests, req)
          /\ \/ /\ cutout' = Append(cutout, req)
                /\ UNCHANGED <<s_pc, s_error>>
             \/ /\ s_pc' = AfterFailure
                /\ s_error' = Some([kind |-> "retrieval", row |-> row,
                                    band |-> Len(cutout) + 1])
                /\ UNCHANGED cutout
    /\ UNCHANGED <<objects, cutout_size, bands, skymap_gets, row, bbox, cutouts, s_result>>
    /\ UNCHANGED <<qvars, bvars, dvars>>

\* lines 106-108: cutout[0] raises IndexError for an empty band string
AppendRow ==
    /\ s_pc = "band"
    /\ Len(cutout) = Len(bands)
    /\ IF cutout = <<>>
       THEN /\ cutouts' = Some([cutouts.val EXCEPT
                                   !.images = Append(@, cutout),
                                   !.GCR = Append(@, objects[row])])
            /\ s_pc' = "raised"
            /\ s_error' = Some([kind |-> "IndexError", row |-> row, band |-> 0])
            /\ UNCHANGED row
       ELSE /\ cutouts' = Some([images |-> Append(cutouts.val.images, cutout),
                                GCR |-> Append(cutouts.val.GCR, objects[row]),
                                wcs |-> Append(cutouts.val.wcs, FitsMetadata(cutout[1]))])
            /\ row' = row + 1
            /\ s_pc' = "row"
            /\ UNCHANGED s_error
    /\ UNCHANGED <<objects, cutout_size, bands, skymap_gets, bbox, cutout, requests, s_result>>
    /\ UNCHANGED <<qvars, bvars, dvars>>

(***************************************************************************)
(*                            display_cutouts                              *)
(***************************************************************************)
MaxEntries == 16

\* floor of the square root
ISqrt(n) == CHOOSE k \in 0..n : k * k <= n /\ (k + 1) * (k + 1) > n

GridSideNoPlusOne(n) == ISqrt(n)

\* line 118: int(np.sqrt(n)+1)
GridSide(n) == ISqrt(n) + 1

DInit ==
    /\ d_pc = "idle"
    /\ d_n = 0
    /\ d_side = 0
    /\ d_i = 0
    /\ d_cells = <<>>

\* lines 115-118: the call display_cutouts(cutouts) for a CutoutSet of n entries
DisplayCall ==
    /\ d_pc = "idle"
    /\ \E n \in 0..MaxEntries :
          /\ d_n' = n
          /\ d_side' = GridSide(n)
    /\ d_i' = 0
    /\ d_cells' = <<>>
    /\ d_pc' = "loop"
    /\ UNCHANGED <<qvars, svars, bvars>>

\* lines 120-131: one iteration; gs[i] raises IndexError outside the grid
DrawEntry ==
    /\ d_pc = "loop"
    /\ d_i < d_n
    /\ IF d_i < d_side * d_side
       THEN /\ d_cells' = Append(d_cells, [entry |-> d_i, cell |-> d_i])
            /\ d_i' = d_i + 1
            /\ UNCHANGED d_pc
       ELSE /\ d_pc' = "raised"
            /\ UNCHANGED <<d_i, d_cells>>
    /\ UNCHANGED <<d_n, d_side>>
    /\ UNCHANGED <<qvars, svars, bvars>>

\* line 133
DisplayDone ==
    /\ d_pc = "loop"
    /\ d_i = d_n
    /\ d_pc' = "done"
    /\ UNCHANGED <<d_n, d_side, d_i, d_cells>>
    /\ UNCHANGED <<qvars, svars, bvars>>

(***************************************************************************)
(*                            specifications                               *)
(***************************************************************************)
Init == QInit /\ SInit /\ BInit /\ DInit

QNext == CatalogQueryCall \/ BuildColumns \/ SchemaCheck \/ BuildFilters \/ Retrieve
SNext == StampsCall \/ GetSkyMap \/ ReturnCutouts \/ LocateRow \/ GetSubImage \/ AppendRow
BNext == ComputeBBox
DNext == DisplayCall \/ DrawEntry \/ DisplayDone

SpecQuery == Init /\ [][QNext]_vars
SpecStamps == Init /\ [][SNext]_vars
SpecBBox == Init /\ [][BNext]_vars
SpecDisplay == Init /\ [][DNext]_vars

(***************************************************************************)
(*                               claims                                    *)
(***************************************************************************)
QFinished == q_pc \in {"returned", "raised"}
SupportedArg == columns.some => Range(columns.val) \subseteq CatalogQuantities
NoDuplicates(s) == \A a, b \in 1..Len(s) : s[a] = s[b] => a = b
Abs(n) == IF n < 0 THEN -n ELSE n

\* C1: with tracts = None and supported columns, a finished catalog_query call has
\* executed the retrieval with the user's filter only and returned a table, with
\* no error.  (The code raises UnboundLocalError instead.)
C1_NoneTractsQueryReturns ==
    (QFinished /\ ~tracts.some /\ SupportedArg)
        => /\ q_pc = "returned"
           /\ q_error = NoneVal
           /\ q_call.some /\ q_call.val.filters = query
           /\ q_result.some

\* C2: the column list handed to the catalog (to has_quantities and to
\* get_quantities) holds the five base fields and every requested extra column,
\* each exactly once.
C2_EffectiveColumns ==
    LET good(cols) == /\ Range(BaseColumns) \subseteq Range(cols)
                      /\ columns.some => Range(columns.val) \subseteq Range(cols)
                      /\ NoDuplicates(cols)
    IN /\ q_checked.some => good(q_checked.val)
       /\ q_call.some => good(q_call.val.columns)

C2_Witness ==
    /\ q_call.some
    /\ columns.some /\ columns.val = <<"ra", "ra">>

\* C3: the retrieval phase is entered, and get_quantities executed, only after
\* has_quantities succeeded on the same column list; with an unsupported column
\* the call ends in the assertion's error, without retrieval and without a table.
C3_SchemaCheckedBeforeRetrieval ==
    /\ q_pc \in {"filters", "get", "returned"}
          => q_checked = Some(columns_to_get)
             /\ Range(columns_to_get) \subseteq CatalogQuantities
    /\ q_call.some => q_checked = Some(q_call.val.columns)
    /\ (QFinished /\ ~SupportedArg)
          => /\ q_pc = "raised" /\ q_error = Some("AssertionError")
             /\ ~q_call.some /\ ~q_result.some

C3_Witness ==
    /\ q_pc = "raised" /\ q_error = Some("AssertionError")
    /\ tracts.some /\ tracts.val # <<>>
    /\ ~SupportedArg

\* C4: for a non-empty tracts list the native filter is the disjunction of one
\* (tract == t) term per element, in list order; a tract value passes it exactly
\* when it is in the list; and that filter is what get_quantities receives.
C4_TractFilterIsDisjunction ==
    /\ filters.some
          => /\ tracts.some /\ tracts.val # <<>>
             /\ ParseFilter(filters.val) = [ok |-> TRUE, terms |-> tracts.val]
             /\ \A t \in TractIds \cup {0, 1, 2, 3, 100, 200} :
                   NativeFilterHolds(filters.val, [tract |-> t])
                       <=> t \in Range(tracts.val)
    /\ q_call.some
          => /\ filters.some /\ q_call.val.native_filters = filters.val
             /\ \A k \in 1..Len(q_result.val) :
                   q_result.val[k].tract \in Range(tracts.val)

C4_Witness ==
    /\ q_call.some
    /\ tracts.val = <<10, 20, 30>>
    /\ Len(q_result.val) > 0

\* C10: with tracts = [] the call never executes the retrieval and never returns
\* a table; it ends in an error, which is the IndexError of tracts[0] whenever the
\* schema check before it has passed, and filters is never bound.
C10_EmptyTractsRaises ==
    (tracts.some /\ tracts.val = <<>>)
        => /\ ~q_call.some /\ ~q_result.some /\ ~filters.some
           /\ q_pc # "get" /\ q_pc # "returned"
           /\ QFinished
                 => /\ q_pc = "raised"
                    /\ q_error = IF SupportedArg THEN Some("IndexError")
                                 ELSE Some("AssertionError")

C10_Witness ==
    /\ tracts.some /\ tracts.val = <<>>
    /\ q_pc = "raised" /\ q_error = Some("IndexError")

\* C5: a returned CutoutSet has one entry per row in each of images, wcs and GCR;
\* images[i] has one cutout per band letter, the j-th asked for the j-th letter
\* and for row i's tract and patch; GCR[i] is row i; wcs[i] is the metadata of
\* images[i][0].
C5_ParallelCollections ==
    s_pc = "returned"
        => /\ s_result.some
           /\ LET c == s_result.val
                  N == Len(objects)
                  B == Len(bands)
              IN /\ Len(c.images) = N /\ Len(c.wcs) = N /\ Len(c.GCR) = N
                 /\ \A i \in 1..N :
                       /\ Len(c.images[i]) = B
                       /\ \A j \in 1..B :
                             /\ c.images[i][j].filter = bands[j]
                             /\ c.images[i][j].tract = objects[i].tract
                             /\ c.images[i][j].patch = objects[i].patch
                       /\ c.GCR[i] = objects[i]
                       /\ c.wcs[i] = FitsMetadata(c.images[i][1])

C5_Witness ==
    /\ s_pc = "returned"
    /\ Len(objects) = 3 /\ objects[1] # objects[2]
    /\ bands = <<"i", "r", "g">>

\* C8: once a tile lookup or a sub-image retrieval has failed at row k, the call
\* has ended with that error and returned nothing, and the sub-image requests
\* issued are exactly those of the rows before k, band by band, followed by row
\* k's requests up to the failing one.
C8_AbortOnFirstFailure ==
    (s_error.some /\ s_error.val.kind \in {"tile lookup", "retrieval"})
        => /\ s_pc = "raised"
           /\ ~s_result.some
           /\ LET B == Len(bands)
                  k == s_error.val.row
              IN /\ Len(requests) = (k - 1) * B + s_error.val.band
                 /\ \A m \in 1..Len(requests) :
                       LET i == ((m - 1) \div B) + 1
                           j == ((m - 1) % B) + 1
                       IN /\ i <= k
                          /\ requests[m].tract = objects[i].tract
                          /\ requests[m].patch = objects[i].patch
                          /\ requests[m].filter = bands[j]

C8_Witness ==
    /\ s_pc = "raised"
    /\ s_error.some /\ s_error.val.kind = "retrieval"
    /\ s_error.val.row = 2 /\ s_error.val.band = 1
    /\ Len(objects) = 3 /\ Len(bands) = 3
    /\ Len(cutouts.val.images) = 1

\* C9: for an empty ObjectTable the call fetches the sky map once, issues no
\* sub-image request, raises nothing, and what it returns is the CutoutSet of
\* three empty lists.
C9_EmptyTable ==
    (objects = <<>> /\ s_pc \notin {"idle", "skymap"})
        => /\ s_pc \in {"row", "returned"}
           /\ skymap_gets = 1
           /\ requests = <<>>
           /\ ~s_error.some
           /\ s_pc = "returned"
                 => s_result = Some([images |-> <<>>, wcs |-> <<>>, GCR |-> <<>>])

C9_Witness ==
    /\ objects = <<>> /\ s_pc = "returned"
    /\ bands = <<>> /\ cutout_size = 3

\* offset of the box's centre (minimum corner plus half the size) from the
\* object's pixel coordinate, on both axes, in coordinate units
CentreOffsets ==
    LET b == b_box.val
    IN <<PixelScale * b.minX + HalfPixel * b.width - b_center[1],
         PixelScale * b.minY + HalfPixel * b.height - b_center[2]>>

\* C6 as claimed: the box has width and height S and its centre lies within half
\* a pixel of the object's pixel coordinate on each axis.
C6_CentreWithinHalfPixel ==
    b_box.some
        => /\ b_box.val.width = b_size /\ b_box.val.height = b_size
           /\ Abs(CentreOffsets[1]) <= HalfPixel
           /\ Abs(CentreOffsets[2]) <= HalfPixel

\* C6 amended: the box has width and height S; its minimum corner is an integer
\* less than one pixel away from (x - S/2, y - S/2), so its centre lies less than
\* one pixel (not always within half a pixel) from (x, y) on each axis.
C6_CentreWithinOnePixel ==
    b_box.some
        => /\ b_box.val.width = b_size /\ b_box.val.height = b_size
           /\ Abs(PixelScale * b_box.val.minX - (b_center[1] - HalfPixel * b_size)) < PixelScale
           /\ Abs(PixelScale * b_box.val.minY - (b_center[2] - HalfPixel * b_size)) < PixelScale
           /\ Abs(CentreOffsets[1]) < PixelScale
           /\ Abs(CentreOffsets[2]) < PixelScale

C6_Witness ==
    /\ b_box.some
    /\ Abs(CentreOffsets[1]) > HalfPixel
    /\ b_center[1] > PixelScale * b_size

\* C7: the grid side is floor(sqrt(n)) + 1; the k-th subplot drawn shows entry
\* k-1 in cell k-1, every cell used lies inside the grid, no cell is used twice,
\* no draw fails, and a finished call has drawn all n entries.
C7_GridHoldsEveryEntry ==
    d_pc # "idle"
        => /\ (d_side - 1) * (d_side - 1) <= d_n /\ d_n < d_side * d_side
           /\ d_pc # "raised"
           /\ \A k \in 1..Len(d_cells) :
                 /\ d_cells[k].entry = k - 1 /\ d_cells[k].cell = k - 1
                 /\ d_cells[k].cell < d_side * d_side
           /\ \A a, b \in 1..Len(d_cells) :
                 d_cells[a].cell = d_cells[b].cell => a = b
           /\ d_pc = "done" => Len(d_cells) = d_n

C7_Witness ==
    /\ d_pc = "done"
    /\ d_n = 9 /\ d_side = 4
    /\ Len(d_cells) = 9
====
